---- MODULE Spec2Model ----
(***************************************************************************)
(* The persistent trie with vector-clock containers of                     *)
(* src/src/lib/persistent/trie.ts: containers owned by replicas, local     *)
(* writes (set), publication of a container to the other replicas, and     *)
(* merges of published containers.                                         *)
(***************************************************************************)
EXTENDS Integers, Sequences, FiniteSets, TLC

(***************************************************************************)
(* Bounds of the model.                                                    *)
(***************************************************************************)
\* number of successful set calls in one behaviour
MaxWrites == 2
\* number of merge calls in one behaviour before the writes stop
MaxMerges == 2
\* largest counter of a clock handed to mergeClocks or merge directly
MaxCount == 3

\* number of transactions of the database in one behaviour
MaxTx == 3

\* number of PersistentArray objects made by from, set and append in one
\* behaviour, the empty array of the start included
MaxArrays == 3

\* container ids (one replica per id), written paths and payloads
Ids == {"r1", "r2"}
MoreIds == {"r1", "r2", "r3"}
Paths == {<<>>, <<"a">>, <<"b">>, <<"a", "a">>, <<"a", "b">>}
Values == {1, 2}

(***************************************************************************)
(* Values of the program.                                                  *)
(***************************************************************************)
\* JavaScript's undefined, as returned by get
Undefined == [undefined |-> TRUE]

\* the result of undefined + 1 in set
NaN == "NaN"

\* the message of the Error thrown by setInTrie
SetError == "Cannot set path on value node"

\* a normal return, and a thrown Error
Return(node) == [ok |-> TRUE, node |-> node]
Throw(message) == [ok |-> FALSE, error |-> message]

\* a value node and a branch node (type TrieNode)
ValueNode(value, version) ==
    [nodeType |-> [type |-> "value", value |-> value, version |-> version],
     isLeaf |-> TRUE]
BranchNode(children) ==
    [nodeType |-> [type |-> "branch", children |-> children],
     isLeaf |-> FALSE]

\* Map.set on a copy of the map
MapSet(map, key, node) ==
    [k \in (DOMAIN map) \cup {key} |-> IF k = key THEN node ELSE map[k]]

\* empty(): a branch without children
empty == BranchNode([k \in {} |-> Undefined])

\* createContainer(id)
createContainer(id) ==
    [root |-> empty, id |-> id, version |-> [k \in {id} |-> 0]]

\* get that follows the first key of the path only
getFirstKey(path, trie) ==
    IF Len(path) = 0 THEN trie
    ELSE IF trie.nodeType.type # "branch" THEN Undefined
    ELSE IF Head(path) \notin DOMAIN trie.nodeType.children THEN Undefined
    ELSE trie.nodeType.children[Head(path)]

\* get(path, trie): the node at path, or undefined
RECURSIVE get(_, _)
get(path, trie) ==
    IF Len(path) = 0 THEN trie
    ELSE IF trie.nodeType.type # "branch" THEN Undefined
    ELSE IF Head(path) \notin DOMAIN trie.nodeType.children THEN Undefined
    ELSE get(Tail(path), trie.nodeType.children[Head(path)])

\* setInTrie that writes through a value node as through an empty branch
RECURSIVE setInTrieThroughLeaf(_, _, _, _)
setInTrieThroughLeaf(path, value, version, trie) ==
    IF Len(path) = 0 THEN Return(ValueNode(value, version))
    ELSE LET key == Head(path)
             rest == Tail(path)
             children == IF trie.nodeType.type = "branch"
                         THEN trie.nodeType.children
                         ELSE empty.nodeType.children
             child == IF key \in DOMAIN children THEN children[key] ELSE empty
             sub == setInTrieThroughLeaf(rest, value, version, child)
         IN  Return(BranchNode(MapSet(children, key, sub.node)))

\* setInTrie whose new branch holds the written child only
RECURSIVE setInTrieDropsSiblings(_, _, _, _)
setInTrieDropsSiblings(path, value, version, trie) ==
    IF Len(path) = 0 THEN Return(ValueNode(value, version))
    ELSE IF trie.nodeType.type # "branch" THEN Throw(SetError)
    ELSE LET key == Head(path)
             rest == Tail(path)
             children == trie.nodeType.children
             child == IF key \in DOMAIN children THEN children[key] ELSE empty
             sub == setInTrieDropsSiblings(rest, value, version, child)
         IN  IF sub.ok
             THEN Return(BranchNode([k \in {key} |-> sub.node]))
             ELSE sub

\* setInTrie that writes the leaf under the first key of the path
setInTrieShallow(path, value, version, trie) ==
    IF Len(path) = 0 THEN Return(ValueNode(value, version))
    ELSE IF trie.nodeType.type # "branch" THEN Throw(SetError)
    ELSE Return(BranchNode(MapSet(trie.nodeType.children, Head(path),
                                  ValueNode(value, version))))

\* setInTrie(path, value, version, trie): the new trie, or the thrown Error
RECURSIVE setInTrie(_, _, _, _)
setInTrie(path, value, version, trie) ==
    IF Len(path) = 0 THEN Return(ValueNode(value, version))
    ELSE IF trie.nodeType.type # "branch" THEN Throw(SetError)
    ELSE LET key == Head(path)
             rest == Tail(path)
             children == trie.nodeType.children
             child == IF key \in DOMAIN children THEN children[key] ELSE empty
             sub == setInTrie(rest, value, version, child)
         IN  IF sub.ok
             THEN Return(BranchNode(MapSet(children, key, sub.node)))
             ELSE sub

\* set without the increment of the container's own entry
newVersionNoIncrement(container) == container.version

\* set that increments every entry of the version
newVersionAllEntries(container) ==
    [k \in DOMAIN container.version |-> container.version[k] + 1]

\* the version set computes: the container's own entry plus one
newVersion(container) ==
    LET id == container.id
        version == container.version
    IN  [k \in (DOMAIN version) \cup {id} |->
            IF k = id
            THEN IF id \in DOMAIN version THEN version[id] + 1 ELSE NaN
            ELSE version[k]]

\* set(path, value, container): the new container, or the thrown Error
set(path, value, container) ==
    LET version == newVersion(container)
        root == setInTrie(path, value, version, container.root)
    IN  IF root.ok
        THEN Return([root |-> root.node, id |-> container.id,
                     version |-> version])
        ELSE root

\* a[nodeId] || 0
ClockGet(a, nodeId) == IF nodeId \in DOMAIN a THEN a[nodeId] ELSE 0

\* happensBefore(a, b): the loop runs over the keys of b only
happensBefore(a, b) ==
    /\ ~ \E nodeId \in DOMAIN b : ClockGet(a, nodeId) > b[nodeId]
    /\ \E nodeId \in DOMAIN b : ClockGet(a, nodeId) < b[nodeId]

Max(x, y) == IF x >= y THEN x ELSE y

\* mergeClocks adding the counters instead of taking the larger
mergeClocksSum(a, b) ==
    [nodeId \in (DOMAIN a) \cup (DOMAIN b) |->
        ClockGet(a, nodeId) + ClockGet(b, nodeId)]

\* mergeClocks as {...a, ...b}: the entries of b overwrite those of a
mergeClocksOverwrites(a, b) ==
    [nodeId \in (DOMAIN a) \cup (DOMAIN b) |->
        IF nodeId \in DOMAIN b THEN b[nodeId] ELSE a[nodeId]]

\* mergeClocks that raises the entries of a and adds no key of b
mergeClocksFirstKeys(a, b) ==
    [nodeId \in DOMAIN a |-> Max(a[nodeId], ClockGet(b, nodeId))]

\* mergeClocks(a, b)
mergeClocks(a, b) ==
    [nodeId \in (DOMAIN a) \cup (DOMAIN b) |->
        IF nodeId \in DOMAIN b
        THEN Max(ClockGet(a, nodeId), b[nodeId])
        ELSE a[nodeId]]

\* mergeTries keeping the older of two leaves
RECURSIVE mergeTriesKeepsOlder(_, _)
mergeTriesKeepsOlder(a, b) ==
    IF a.nodeType.type = "value" /\ b.nodeType.type = "value"
    THEN IF happensBefore(a.nodeType.version, b.nodeType.version) THEN a ELSE b
    ELSE IF a.nodeType.type = "branch" /\ b.nodeType.type = "branch"
    THEN LET ac == a.nodeType.children
             bc == b.nodeType.children
         IN  BranchNode([key \in (DOMAIN ac) \cup (DOMAIN bc) |->
                 IF key \notin DOMAIN bc THEN ac[key]
                 ELSE IF key \in DOMAIN ac
                      THEN mergeTriesKeepsOlder(ac[key], bc[key])
                 ELSE bc[key]])
    ELSE b

\* mergeTries(a, b), on two nodes
RECURSIVE mergeTries(_, _)
mergeTries(a, b) ==
    IF a.nodeType.type = "value" /\ b.nodeType.type = "value"
    THEN IF happensBefore(a.nodeType.version, b.nodeType.version) THEN b ELSE a
    ELSE IF a.nodeType.type = "branch" /\ b.nodeType.type = "branch"
    THEN LET ac == a.nodeType.children
             bc == b.nodeType.children
         IN  BranchNode([key \in (DOMAIN ac) \cup (DOMAIN bc) |->
                 IF key \notin DOMAIN bc THEN ac[key]
                 ELSE IF key \in DOMAIN ac THEN mergeTries(ac[key], bc[key])
                 ELSE bc[key]])
    ELSE b

\* merge that counts as a local event: it always merges structurally and
\* increments the entry of a.id
mergeTicks(a, b) ==
    LET version == mergeClocks(a.version, b.version)
    IN  [id |-> a.id,
         root |-> mergeTries(a.root, b.root),
         version |-> [nodeId \in DOMAIN version |->
                         IF nodeId = a.id THEN version[nodeId] + 1
                         ELSE version[nodeId]]]

\* merge with the same-id choice the other way round
mergeKeepsOlder(a, b) ==
    IF a.id = b.id
    THEN IF happensBefore(a.version, b.version) THEN a ELSE b
    ELSE [id |-> a.id,
          root |-> mergeTries(a.root, b.root),
          version |-> mergeClocks(a.version, b.version)]

\* merge that takes the version of the incoming container as it is
mergeTakesIncomingVersion(a, b) ==
    IF a.id = b.id
    THEN IF happensBefore(a.version, b.version) THEN b ELSE a
    ELSE [id |-> a.id,
          root |-> mergeTries(a.root, b.root),
          version |-> b.version]

\* merge(a, b), on two containers
merge(a, b) ==
    IF a.id = b.id
    THEN IF happensBefore(a.version, b.version) THEN b ELSE a
    ELSE [id |-> a.id,
          root |-> mergeTries(a.root, b.root),
          version |-> mergeClocks(a.version, b.version)]

\* toValue(trie) !== undefined, for a node: a value node holds one of Values,
\* none of which is undefined; a branch gives undefined when no child gives
\* a value
RECURSIVE HasValue(_)
HasValue(trie) ==
    IF trie.nodeType.type = "value" THEN TRUE
    ELSE \E key \in DOMAIN trie.nodeType.children :
            HasValue(trie.nodeType.children[key])

\* toValue that gives an object without keys for a branch none of whose
\* children gives a value
RECURSIVE toValueEmptyObject(_)
toValueEmptyObject(trie) ==
    IF trie = Undefined THEN Undefined
    ELSE IF trie.nodeType.type = "value" THEN trie.nodeType.value
    ELSE LET children == trie.nodeType.children
             keys == {key \in DOMAIN children : HasValue(children[key])}
         IN  [key \in keys |-> toValueEmptyObject(children[key])]

\* toValue(trie): the value of a leaf, an object of the children's values
\* for a branch, or undefined
RECURSIVE toValue(_)
toValue(trie) ==
    IF trie = Undefined THEN Undefined
    ELSE IF trie.nodeType.type = "value" THEN trie.nodeType.value
    ELSE LET children == trie.nodeType.children
             keys == {key \in DOMAIN children : HasValue(children[key])}
         IN  IF keys = {} THEN Undefined
             ELSE [key \in keys |-> toValue(children[key])]

(***************************************************************************)
(* Removal.  has, removeValue and removePath are the functions the Trie    *)
(* tests import from './trie'; they are written here as the tests and the  *)
(* specification describe them.  A tombstone is a branch without children: *)
(* get finds it and toValue gives undefined for it.                        *)
(***************************************************************************)
\* has(path, trie): get resolves to a node
has(path, trie) == get(path, trie) # Undefined

\* removeValue(path, trie): the node at path gives way to a tombstone, the
\* branches above it are rebuilt; a path that is not there changes nothing
RECURSIVE removeValue(_, _)
removeValue(path, trie) ==
    IF Len(path) = 0 THEN empty
    ELSE IF trie.nodeType.type # "branch" THEN trie
    ELSE IF Head(path) \notin DOMAIN trie.nodeType.children THEN trie
    ELSE LET children == trie.nodeType.children
         IN  BranchNode(MapSet(children, Head(path),
                               removeValue(Tail(path), children[Head(path)])))

\* what removePath leaves of trie: undefined when nothing is left of it
RECURSIVE removePathPruned(_, _)
removePathPruned(path, trie) ==
    IF Len(path) = 0 THEN Undefined
    ELSE IF trie.nodeType.type # "branch" THEN trie
    ELSE IF Head(path) \notin DOMAIN trie.nodeType.children THEN trie
    ELSE LET children == trie.nodeType.children
             sub == removePathPruned(Tail(path), children[Head(path)])
             keys == IF sub = Undefined THEN (DOMAIN children) \ {Head(path)}
                     ELSE DOMAIN children
         IN  IF keys = {} THEN Undefined
             ELSE BranchNode([k \in keys |-> IF k = Head(path) THEN sub
                                             ELSE children[k]])

\* removePath(path, trie): the node at path goes, and with it every branch
\* above it that is left without children; the empty trie when all is gone
removePath(path, trie) ==
    LET left == removePathPruned(path, trie)
    IN  IF left = Undefined THEN empty ELSE left

(***************************************************************************)
(* Compound payloads: the values a caller hands to set.  A JavaScript      *)
(* array and a JavaScript object are different values even when both are   *)
(* empty, so every payload carries its kind.                               *)
(***************************************************************************)
\* a number, an array and a plain object
Scalar(value) == [kind |-> "scalar", value |-> value]
Array(items) == [kind |-> "array", items |-> items]
Object(fields) == [kind |-> "object", fields |-> fields]

\* the payloads of the direct calls: scalars, the empty array and the empty
\* object, arrays and objects of those, and arrays and objects nested once
\* more
Scalars == {Scalar(value) : value \in Values}
Flat == Scalars \cup {Array(<<>>), Object(<<>>)}
Nested ==
    Flat
    \cup {Array(<<x>>) : x \in Flat}
    \cup {Array(<<x, y>>) : x, y \in Flat}
    \cup {Object(fields) : fields \in [{"a"} -> Flat] \cup [{"a", "b"} -> Flat]}
Payloads ==
    Nested
    \cup {Array(<<x, y>>) : x \in Scalars, y \in Nested}
    \cup {Object([a |-> x, b |-> y]) : x \in Nested, y \in Scalars}

(***************************************************************************)
(* The EAVT database of src/unnamed/part_003: a Database is the array of   *)
(* its facts and the id of the next transaction.                           *)
(***************************************************************************)
\* JavaScript's null, as returned by getValue
Null == [null |-> TRUE]

\* a Fact
Fact(entity, attribute, value, txId, added) ==
    [entity |-> entity, attribute |-> attribute, value |-> value,
     txId |-> txId, added |-> added]

\* createDatabase()
createDatabase == [facts |-> <<>>, nextTx |-> 1]

\* addFact(db, entity, attribute, value)
addFact(d, entity, attribute, value) ==
    LET txId == d.nextTx
    IN  [facts |-> Append(d.facts, Fact(entity, attribute, value, txId, TRUE)),
         nextTx |-> txId + 1]

\* retractFact(db, entity, attribute, value)
retractFact(d, entity, attribute, value) ==
    LET txId == d.nextTx
    IN  [facts |-> Append(d.facts, Fact(entity, attribute, value, txId, FALSE)),
         nextTx |-> txId + 1]

\* Array.prototype.sort with (a, b) => b.txId - a.txId: a stable sort, so
\* facts of one transaction keep their order
RECURSIVE InsertDescending(_, _)
InsertDescending(fact, sorted) ==
    IF sorted = <<>> THEN <<fact>>
    ELSE IF Head(sorted).txId >= fact.txId
    THEN <<Head(sorted)>> \o InsertDescending(fact, Tail(sorted))
    ELSE <<fact>> \o sorted

RECURSIVE SortDescending(_)
SortDescending(facts) ==
    IF facts = <<>> THEN <<>>
    ELSE InsertDescending(facts[Len(facts)],
                          SortDescending(SubSeq(facts, 1, Len(facts) - 1)))

\* getValue that returns the value of the oldest fact
getValueOldest(d, entity, attribute) ==
    LET keep(f) == f.entity = entity /\ f.attribute = attribute
        relevantFacts == SortDescending(SelectSeq(d.facts, keep))
    IN  IF relevantFacts = <<>> THEN Null
        ELSE IF relevantFacts[Len(relevantFacts)].added
        THEN relevantFacts[Len(relevantFacts)].value
        ELSE Null

\* getValue(db, entity, attribute): mostRecent?.added ? mostRecent.value : null
getValue(d, entity, attribute) ==
    LET keep(f) == f.entity = entity /\ f.attribute = attribute
        relevantFacts == SortDescending(SelectSeq(d.facts, keep))
    IN  IF relevantFacts = <<>> THEN Null
        ELSE IF relevantFacts[1].added THEN relevantFacts[1].value
        ELSE Null

\* the keys of the Map getEntity groups the facts of entity by, in the order
\* of insertion: the order in which the attributes first come in the facts
RECURSIVE AttributesOf(_, _)
AttributesOf(facts, entity) ==
    IF facts = <<>> THEN <<>>
    ELSE LET before == AttributesOf(SubSeq(facts, 1, Len(facts) - 1), entity)
             fact == facts[Len(facts)]
         IN  IF fact.entity = entity
                /\ \A i \in DOMAIN before : before[i] # fact.attribute
             THEN Append(before, fact.attribute)
             ELSE before

\* the entries of the object getEntity returns, in the order of insertion:
\* for each attribute the value of the most recent fact, if that was added
getEntityEntries(d, entity) ==
    LET attrs == AttributesOf(d.facts, entity)
        mostRecent(attr) ==
            LET keep(f) == f.entity = entity /\ f.attribute = attr
            IN  SortDescending(SelectSeq(d.facts, keep))[1]
        recent == [i \in DOMAIN attrs |-> mostRecent(attrs[i])]
        added(f) == f.added
        current == SelectSeq(recent, added)
    IN  [i \in DOMAIN current |-> <<current[i].attribute, current[i].value>>]

\* getEntity(db, entity): the object, as a map from its keys to its values
getEntity(d, entity) ==
    LET entries == getEntityEntries(d, entity)
    IN  [attr \in {entries[i][1] : i \in DOMAIN entries} |->
            entries[CHOOSE i \in DOMAIN entries : entries[i][1] = attr][2]]

\* addFacts as one addFact after the other: a transaction for every entry
addFactsOneByOne(d, entity, avMap) ==
    LET txId == d.nextTx
        facts == [i \in DOMAIN avMap |->
                    Fact(entity, avMap[i][1], avMap[i][2], txId + i - 1, TRUE)]
    IN  [facts |-> d.facts \o facts, nextTx |-> txId + Len(avMap)]

\* addFacts(db, entity, avMap): avMap is given by its entries in order
addFacts(d, entity, avMap) ==
    LET txId == d.nextTx
        facts == [i \in DOMAIN avMap |->
                    Fact(entity, avMap[i][1], avMap[i][2], txId, TRUE)]
    IN  [facts |-> d.facts \o facts, nextTx |-> txId + 1]

\* retractEntity that retracts the first current attribute only
retractEntityFirstOnly(d, entity) ==
    LET currentFacts == getEntityEntries(d, entity)
        txId == d.nextTx
        retractionFacts ==
            [i \in (DOMAIN currentFacts) \cap {1} |->
                Fact(entity, currentFacts[i][1], currentFacts[i][2], txId,
                     FALSE)]
    IN  [facts |-> d.facts \o retractionFacts, nextTx |-> txId + 1]

\* retractEntity(db, entity): a retraction for every current attribute
retractEntity(d, entity) ==
    LET currentFacts == getEntityEntries(d, entity)
        txId == d.nextTx
        retractionFacts ==
            [i \in DOMAIN currentFacts |->
                Fact(entity, currentFacts[i][1], currentFacts[i][2], txId,
                     FALSE)]
    IN  [facts |-> d.facts \o retractionFacts, nextTx |-> txId + 1]

\* asOf that leaves out the facts of the transaction itself
asOfBefore(d, txId) ==
    LET keep(f) == f.txId < txId
    IN  [facts |-> SelectSeq(d.facts, keep), nextTx |-> txId + 1]

\* asOf(db, txId): the facts up to and including the transaction
asOf(d, txId) ==
    LET keep(f) == f.txId <= txId
    IN  [facts |-> SelectSeq(d.facts, keep), nextTx |-> txId + 1]

\* entityExists(db, entity)
entityExists(d, entity) == Cardinality(DOMAIN getEntity(d, entity)) > 0

(***************************************************************************)
(* PersistentArray of src/src/lib/persistent/array.ts, on objects with     *)
(* identity: a PersistentArray object holds a reference to a Trie object   *)
(* and its size.  The Trie class it imports is not part of trie.ts; it is  *)
(* written here as a persistent map from a path of one key to an item,     *)
(* whose set returns a new Trie and leaves the old one as it was.          *)
(***************************************************************************)
\* the message of the Error thrown by PersistentArray.set
IndexError == "Index out of bounds"

\* new Trie()
Trie_new(h) ==
    [ref |-> Len(h) + 1, heap |-> Append(h, [entries |-> <<>>])]

\* trie.set(path, item): a new Trie with the item at the path
Trie_set(trie, path, item, h) ==
    [ref |-> Len(h) + 1,
     heap |-> Append(h, [entries |-> MapSet(h[trie].entries, path, item)])]

\* trie.get(path): the item at the path, or undefined
Trie_get(trie, path, h) ==
    IF path \in DOMAIN h[trie].entries THEN h[trie].entries[path]
    ELSE Undefined

\* new PersistentArray(trie, size)
PersistentArray_new(trie, size, h) ==
    [ref |-> Len(h) + 1, heap |-> Append(h, [trie |-> trie, _size |-> size])]

\* PersistentArray.empty()
PersistentArray_empty(h) ==
    LET trie == Trie_new(h)
    IN  PersistentArray_new(trie.ref, 0, trie.heap)

\* the loop of PersistentArray.from over the items that are still to come
RECURSIVE PersistentArray_fromLoop(_, _, _, _)
PersistentArray_fromLoop(items, trie, size, h) ==
    IF items = <<>> THEN PersistentArray_new(trie, size, h)
    ELSE LET next == Trie_set(trie, <<ToString(size)>>, Head(items), h)
         IN  PersistentArray_fromLoop(Tail(items), next.ref, size + 1,
                                      next.heap)

\* PersistentArray.from(items)
PersistentArray_from(items, h) ==
    LET trie == Trie_new(h)
    IN  PersistentArray_fromLoop(items, trie.ref, 0, trie.heap)

\* array.size
PersistentArray_size(array, h) == h[array]._size

\* array.get(index)
PersistentArray_get(array, index, h) ==
    IF index < 0 \/ index >= h[array]._size THEN Undefined
    ELSE Trie_get(h[array].trie, <<ToString(index)>>, h)

\* set whose result has the size index + 1
PersistentArray_setSizeFromIndex(array, index, value, h) ==
    IF index < 0 THEN [ok |-> FALSE, error |-> IndexError]
    ELSE LET newTrie == Trie_set(h[array].trie, <<ToString(index)>>, value, h)
             made == PersistentArray_new(newTrie.ref, index + 1, newTrie.heap)
         IN  [ok |-> TRUE, ref |-> made.ref, heap |-> made.heap]

\* array.set(index, value): the new array, or the thrown Error
PersistentArray_set(array, index, value, h) ==
    IF index < 0 THEN [ok |-> FALSE, error |-> IndexError]
    ELSE LET newTrie == Trie_set(h[array].trie, <<ToString(index)>>, value, h)
             made == PersistentArray_new(newTrie.ref,
                                         Max(h[array]._size, index + 1),
                                         newTrie.heap)
         IN  [ok |-> TRUE, ref |-> made.ref, heap |-> made.heap]

\* array.append(value)
PersistentArray_append(array, value, h) ==
    PersistentArray_set(array, h[array]._size, value, h)

\* the loop of slice from index i on: result is the array built so far
RECURSIVE PersistentArray_sliceLoop(_, _, _, _, _, _)
PersistentArray_sliceLoop(array, i, start, end, result, h) ==
    IF i >= end THEN [ref |-> result, heap |-> h]
    ELSE LET value == PersistentArray_get(array, i, h)
         IN  IF value # Undefined
             THEN LET next == PersistentArray_set(result, i - start, value, h)
                  IN  PersistentArray_sliceLoop(array, i + 1, start, end,
                                                next.ref, next.heap)
             ELSE PersistentArray_sliceLoop(array, i + 1, start, end,
                                            result, h)

\* array.slice(start, end)
PersistentArray_slice(array, start, end, h) ==
    LET from == Max(0, start)
        to == IF h[array]._size < end THEN h[array]._size ELSE end
        result == PersistentArray_empty(h)
    IN  PersistentArray_sliceLoop(array, from, from, to, result.ref,
                                  result.heap)

(***************************************************************************)
(* The same functions on objects with identity.  The heap is the sequence  *)
(* of the objects allocated so far and a reference is an index into it.    *)
(* An object is a version (a map from ids to counters), a TrieNode whose   *)
(* children Map holds references and whose leaf version is a reference,   *)
(* or a Container whose root and version are references.                   *)
(***************************************************************************)
\* no object: what Map.get and get return as undefined
NoRef == 0

\* references to the Container objects of heap h
ContainerRefs(h) == {ref \in DOMAIN h : "root" \in DOMAIN h[ref]}

\* createContainer(id): the root, the version and the container are new
createContainerH(id, h) ==
    LET h1 == Append(h, empty)
        h2 == Append(h1, [k \in {id} |-> 0])
    IN  [ref |-> Len(h2) + 1,
         heap |-> Append(h2, [root |-> Len(h1), id |-> id,
                              version |-> Len(h2)])]

\* get(path, trie) on references
RECURSIVE getH(_, _, _)
getH(path, trie, h) ==
    IF Len(path) = 0 THEN trie
    ELSE IF h[trie].nodeType.type # "branch" THEN NoRef
    ELSE IF Head(path) \notin DOMAIN h[trie].nodeType.children THEN NoRef
    ELSE getH(Tail(path), h[trie].nodeType.children[Head(path)], h)

\* the children of a branch with every child but the one under key replaced
\* by a new copy of it
RECURSIVE CloneSiblings(_, _, _, _)
CloneSiblings(keys, key, children, h) ==
    IF keys \subseteq {key} THEN [children |-> children, heap |-> h]
    ELSE LET k == CHOOSE k \in keys \ {key} : TRUE
         IN  CloneSiblings(keys \ {k}, key,
                           [children EXCEPT ![k] = Len(h) + 1],
                           Append(h, h[children[k]]))

\* setInTrie that copies the sibling subtrees' nodes into the new branch
RECURSIVE setInTrieHCopiesSiblings(_, _, _, _, _)
setInTrieHCopiesSiblings(path, value, version, trie, h) ==
    IF Len(path) = 0
    THEN [ok |-> TRUE, ref |-> Len(h) + 1,
          heap |-> Append(h, ValueNode(value, version))]
    ELSE IF h[trie].nodeType.type # "branch"
    THEN [ok |-> FALSE, error |-> SetError]
    ELSE LET key == Head(path)
             copy == CloneSiblings(DOMAIN h[trie].nodeType.children, key,
                                   h[trie].nodeType.children, h)
             children == copy.children
             present == key \in DOMAIN children
             h1 == IF present THEN copy.heap ELSE Append(copy.heap, empty)
             child == IF present THEN children[key] ELSE Len(h1)
             sub == setInTrieHCopiesSiblings(Tail(path), value, version,
                                             child, h1)
         IN  IF sub.ok
             THEN [ok |-> TRUE, ref |-> Len(sub.heap) + 1,
                   heap |-> Append(sub.heap,
                                BranchNode(MapSet(children, key, sub.ref)))]
             ELSE sub

\* setInTrie without the copy of the children Map: the Map of the input
\* node gets the new entry and the new node holds the same Map
RECURSIVE setInTrieHInPlace(_, _, _, _, _)
setInTrieHInPlace(path, value, version, trie, h) ==
    IF Len(path) = 0
    THEN [ok |-> TRUE, ref |-> Len(h) + 1,
          heap |-> Append(h, ValueNode(value, version))]
    ELSE IF h[trie].nodeType.type # "branch"
    THEN [ok |-> FALSE, error |-> SetError]
    ELSE LET key == Head(path)
             children == h[trie].nodeType.children
             present == key \in DOMAIN children
             h1 == IF present THEN h ELSE Append(h, empty)
             child == IF present THEN children[key] ELSE Len(h1)
             sub == setInTrieHInPlace(Tail(path), value, version, child, h1)
         IN  IF sub.ok
             THEN LET node == BranchNode(MapSet(children, key, sub.ref))
                  IN  [ok |-> TRUE, ref |-> Len(sub.heap) + 1,
                       heap |-> Append([sub.heap EXCEPT ![trie] = node],
                                       node)]
             ELSE sub

\* setInTrie that replaces a value node on the way by a branch instead of
\* throwing
RECURSIVE setInTrieHOverwrites(_, _, _, _, _)
setInTrieHOverwrites(path, value, version, trie, h) ==
    IF Len(path) = 0
    THEN [ok |-> TRUE, ref |-> Len(h) + 1,
          heap |-> Append(h, ValueNode(value, version))]
    ELSE LET key == Head(path)
             children == IF h[trie].nodeType.type = "branch"
                         THEN h[trie].nodeType.children
                         ELSE empty.nodeType.children
             present == key \in DOMAIN children
             h1 == IF present THEN h ELSE Append(h, empty)
             child == IF present THEN children[key] ELSE Len(h1)
             sub == setInTrieHOverwrites(Tail(path), value, version, child, h1)
         IN  [ok |-> TRUE, ref |-> Len(sub.heap) + 1,
              heap |-> Append(sub.heap,
                           BranchNode(MapSet(children, key, sub.ref)))]

\* setInTrie(path, value, version, trie): the reference to the new trie and
\* the heap with the objects it allocated, or the thrown Error
RECURSIVE setInTrieH(_, _, _, _, _)
setInTrieH(path, value, version, trie, h) ==
    IF Len(path) = 0
    THEN [ok |-> TRUE, ref |-> Len(h) + 1,
          heap |-> Append(h, ValueNode(value, version))]
    ELSE IF h[trie].nodeType.type # "branch"
    THEN [ok |-> FALSE, error |-> SetError]
    ELSE LET key == Head(path)
             \* new Map(trie.nodeType.children): the entries, by reference
             children == h[trie].nodeType.children
             present == key \in DOMAIN children
             \* children.get(key) || empty()
             h1 == IF present THEN h ELSE Append(h, empty)
             child == IF present THEN children[key] ELSE Len(h1)
             sub == setInTrieH(Tail(path), value, version, child, h1)
         IN  IF sub.ok
             THEN [ok |-> TRUE, ref |-> Len(sub.heap) + 1,
                   heap |-> Append(sub.heap,
                                BranchNode(MapSet(children, key, sub.ref)))]
             ELSE sub

\* set(path, value, container): the new version object, the new trie and
\* the new container object
setH(path, value, container, h) ==
    LET co == h[container]
        version == newVersion([id |-> co.id, version |-> h[co.version]])
        h1 == Append(h, version)
        root == setInTrieH(path, value, Len(h1), co.root, h1)
    IN  IF root.ok
        THEN [ok |-> TRUE, ref |-> Len(root.heap) + 1,
              heap |-> Append(root.heap, [root |-> root.ref, id |-> co.id,
                                          version |-> Len(h1)])]
        ELSE root

\* mergeTries(a, b) on references.  mergeChildrenH is its loop over the
\* entries of b that are still to come; the order of the loop decides only
\* the order in which the new nodes are allocated.
RECURSIVE mergeTriesH(_, _, _)
RECURSIVE mergeChildrenH(_, _, _, _)
mergeChildrenH(keys, children, bChildren, h) ==
    IF keys = {} THEN [children |-> children, heap |-> h]
    ELSE LET key == CHOOSE k \in keys : TRUE
             bChild == bChildren[key]
         IN  IF key \in DOMAIN children
             THEN LET sub == mergeTriesH(children[key], bChild, h)
                  IN  mergeChildrenH(keys \ {key},
                                     MapSet(children, key, sub.ref),
                                     bChildren, sub.heap)
             ELSE mergeChildrenH(keys \ {key},
                                 MapSet(children, key, bChild),
                                 bChildren, h)

mergeTriesH(a, b, h) ==
    IF h[a].nodeType.type = "value" /\ h[b].nodeType.type = "value"
    THEN [ref |-> IF happensBefore(h[h[a].nodeType.version],
                                   h[h[b].nodeType.version])
                  THEN b ELSE a,
          heap |-> h]
    ELSE IF h[a].nodeType.type = "branch" /\ h[b].nodeType.type = "branch"
    THEN LET m == mergeChildrenH(DOMAIN h[b].nodeType.children,
                                 h[a].nodeType.children,
                                 h[b].nodeType.children, h)
         IN  [ref |-> Len(m.heap) + 1,
              heap |-> Append(m.heap, BranchNode(m.children))]
    ELSE [ref |-> b, heap |-> h]

\* merge(a, b) on references to containers: one of the two for the same id,
\* else a new root, a new version object and a new container object
mergeH(a, b, h) ==
    IF h[a].id = h[b].id
    THEN [ref |-> IF happensBefore(h[h[a].version], h[h[b].version])
                  THEN b ELSE a,
          heap |-> h]
    ELSE LET root == mergeTriesH(h[a].root, h[b].root, h)
             h1 == Append(root.heap,
                          mergeClocks(h[h[a].version], h[h[b].version]))
         IN  [ref |-> Len(h1) + 1,
              heap |-> Append(h1, [root |-> root.ref, id |-> h[a].id,
                                   version |-> Len(h1)])]

\* what a reference to a node stands for: the trie below it, by value
RECURSIVE NodeAt(_, _)
NodeAt(ref, h) ==
    IF h[ref].nodeType.type = "value"
    THEN ValueNode(h[ref].nodeType.value, h[h[ref].nodeType.version])
    ELSE BranchNode([key \in DOMAIN h[ref].nodeType.children |->
                        NodeAt(h[ref].nodeType.children[key], h)])

\* what a reference to a container stands for: the container, by value
ContainerAt(ref, h) ==
    [root |-> NodeAt(h[ref].root, h),
     id |-> h[ref].id,
     version |-> h[h[ref].version]]

(***************************************************************************)
(* The state: every replica's current container, the container it last    *)
(* published, the numbers of writes and merges so far, the last set call,  *)
(* and the bookkeeping of the final exchange.                              *)
(***************************************************************************)
VARIABLES c, snap, writes, merges, last, phase, merged

\* A direct call of a function on two clocks: its arguments and what it
\* returned.
VARIABLES clk

\* The objects allocated so far, the reference each replica holds to its
\* current container, and the last call on references.
VARIABLES heap, hc, hlast

\* A direct call of set with a compound payload, of removeValue or of
\* removePath: its arguments and what it returned.
VARIABLES pl

\* The EAVT database, the database right after each committed transaction,
\* and the last operation on it.
VARIABLES db, hist, dlast

\* The objects of the persistent arrays allocated so far, and the last call
\* on one of them.
VARIABLES aheap, alast

\* the state of the payload calls, of the database and of the arrays
more == <<pl, db, hist, dlast, aheap, alast>>

\* the state of the direct calls and of the calls on references
direct == <<clk, heap, hc, hlast, more>>

vars == <<c, snap, writes, merges, last, phase, merged, direct>>

\* the replicas of the behaviour
Replicas == DOMAIN c

InitWith(ids) ==
    /\ c = [r \in ids |-> createContainer(r)]
    /\ snap = [r \in ids |-> createContainer(r)]
    /\ writes = 0
    /\ merges = 0
    /\ last = [op |-> "none"]
    /\ phase = "run"
    /\ merged = [r \in ids |-> {}]

\* no direct call
NoCall == [op |-> "none"]

\* no object
NoHeap ==
    /\ heap = <<>>
    /\ hc = <<>>
    /\ hlast = NoCall

\* no payload call
NoPayload == pl = NoCall

\* no database
NoDb ==
    /\ db = <<>>
    /\ hist = <<>>
    /\ dlast = NoCall

\* no array
NoArrays ==
    /\ aheap = <<>>
    /\ alast = NoCall

\* none of the three
NoMore == NoPayload /\ NoDb /\ NoArrays

Init == InitWith(Ids) /\ clk = NoCall /\ NoHeap /\ NoMore

\* replica r calls set(path, value, c[r]); a thrown Error leaves c[r] as it was
Set(r, path, value) ==
    /\ phase = "run"
    /\ writes < MaxWrites
    /\ LET res == set(path, value, c[r])
       IN  /\ c' = IF res.ok THEN [c EXCEPT ![r] = res.node] ELSE c
           /\ writes' = IF res.ok THEN writes + 1 ELSE writes
           /\ last' = [op |-> "set", id |-> r, path |-> path,
                       old |-> get(path, c[r].root),
                       error |-> IF res.ok THEN "" ELSE res.error]
    /\ UNCHANGED <<snap, merges, phase, merged, direct>>

\* replica r hands its current container to the transport
Publish(r) ==
    /\ phase = "run"
    /\ snap[r] # c[r]
    /\ snap' = [snap EXCEPT ![r] = c[r]]
    /\ last' = [op |-> "none"]
    /\ UNCHANGED <<c, writes, merges, phase, merged, direct>>

\* replica r merges the published container of s into its own; with its own
\* published container (s = r) it may pass either one first
Merge(r, s, incomingFirst) ==
    /\ phase = "run"
    /\ merges < MaxMerges
    /\ incomingFirst => s = r
    /\ c' = [c EXCEPT ![r] = IF incomingFirst THEN merge(snap[s], c[r])
                                              ELSE merge(c[r], snap[s])]
    /\ merges' = merges + 1
    /\ last' = [op |-> "none"]
    /\ UNCHANGED <<snap, writes, phase, merged, direct>>

\* writes stop: every replica publishes its final container
StopWrites ==
    /\ phase = "run"
    /\ phase' = "sync"
    /\ snap' = c
    /\ last' = [op |-> "none"]
    /\ UNCHANGED <<c, writes, merges, merged, direct>>

\* after the writes stopped, replica r merges the final container of s
SyncMerge(r, s) ==
    /\ phase = "sync"
    /\ s # r
    /\ s \notin merged[r]
    /\ c' = [c EXCEPT ![r] = merge(c[r], snap[s])]
    /\ merged' = [merged EXCEPT ![r] = merged[r] \cup {s}]
    /\ last' = [op |-> "none"]
    /\ UNCHANGED <<snap, writes, merges, phase, direct>>

Next ==
    \/ \E r \in Replicas, path \in Paths, value \in Values : Set(r, path, value)
    \/ \E r \in Replicas : Publish(r)
    \/ \E r, s \in Replicas, incomingFirst \in BOOLEAN : Merge(r, s, incomingFirst)

Spec == Init /\ [][Next]_vars

\* three replicas that only write: containers built from createContainer by
\* set calls alone
InitBuild == InitWith(MoreIds) /\ clk = NoCall /\ NoHeap /\ NoMore

NextBuild ==
    \E r \in Replicas, path \in Paths, value \in Values : Set(r, path, value)

SpecBuild == InitBuild /\ [][NextBuild]_vars

\* writes and merges in any interleaving, then the final exchange
NextSync ==
    \/ Next
    \/ StopWrites
    \/ \E r, s \in Replicas : SyncMerge(r, s)

SpecSync == Init /\ [][NextSync]_vars

(***************************************************************************)
(* Writes and merges of two replicas that hand over their current          *)
(* containers: merge(c[r], c[s]) with the container replica s holds now.   *)
(***************************************************************************)
\* replica r calls merge(its container, the current container of s); s may
\* be r
MergeCurrent(r, s) ==
    /\ phase = "run"
    /\ merges < MaxMerges
    /\ LET out == merge(c[r], c[s])
       IN  /\ c' = [c EXCEPT ![r] = out]
           /\ last' = [op |-> "merge", a |-> c[r], b |-> c[s], out |-> out]
    /\ merges' = merges + 1
    /\ UNCHANGED <<snap, writes, phase, merged, direct>>

NextLocal ==
    \/ \E r \in Replicas, path \in Paths, value \in Values : Set(r, path, value)
    \/ \E r, s \in Replicas : MergeCurrent(r, s)

SpecLocal == Init /\ [][NextLocal]_vars

(***************************************************************************)
(* A container and what set calls and merges make of it.  Whoever was      *)
(* handed a container keeps it and may go on from it, so several           *)
(* containers of one id exist side by side.  The lineage starts from any   *)
(* container of the pool, which snap keeps; the other argument of a merge  *)
(* is any container of the pool.                                           *)
(***************************************************************************)
\* the container n set calls at ['a'] make of createContainer(id)
RECURSIVE Written(_, _)
Written(id, n) ==
    IF n = 0 THEN createContainer(id)
    ELSE set(<<"a">>, 1, Written(id, n - 1)).node

\* the containers of the pool: a container after up to MaxWrites set calls,
\* and the merge of two of them
ForkPool ==
    LET written == {Written(id, n) : id \in Ids, n \in 0..MaxWrites}
    IN  written \cup {merge(x, y) : x, y \in written}

InitForks ==
    /\ c \in {[r \in {x.id} |-> x] : x \in ForkPool}
    /\ snap = c
    /\ writes = 0
    /\ merges = 0
    /\ last = [op |-> "none"]
    /\ phase = "run"
    /\ merged = [r \in DOMAIN c |-> {}]
    /\ clk = NoCall
    /\ NoHeap
    /\ NoMore

\* the holder r of the lineage merges its container with a container of
\* the pool, in either argument position
ForkMerge(r, other, otherFirst) ==
    /\ merges < MaxMerges
    /\ LET out == IF otherFirst THEN merge(other, c[r]) ELSE merge(c[r], other)
       IN  /\ c' = [c EXCEPT ![r] = out]
           /\ last' = [op |-> "merge", other |-> other,
                       otherFirst |-> otherFirst, in |-> c[r]]
    /\ merges' = merges + 1
    /\ UNCHANGED <<snap, writes, phase, merged, direct>>

NextForks ==
    \/ \E r \in Replicas : Set(r, <<"a">>, 1)
    \/ \E r \in Replicas : \E other \in ForkPool : \E otherFirst \in BOOLEAN :
            ForkMerge(r, other, otherFirst)

SpecForks == InitForks /\ [][NextForks]_vars

(***************************************************************************)
(* Direct calls of mergeClocks and of merge on two containers of one id,   *)
(* with any two clocks over the ids and counters up to MaxCount.           *)
(***************************************************************************)
ClockSpace == UNION {[ids -> 0..MaxCount] : ids \in SUBSET MoreIds}

\* a container of id at the given version whose last write put value at ['a']
Fork(id, version, value) ==
    [root |-> setInTrie(<<"a">>, value, version, empty).node,
     id |-> id,
     version |-> version]

InitClocks ==
    /\ InitWith(Ids)
    /\ clk \in {[op |-> "args", a |-> a, b |-> b] : a, b \in ClockSpace}
    /\ NoHeap
    /\ NoMore

\* mergeClocks(a, b) on the two clocks
CallMergeClocks ==
    /\ clk.op = "args"
    /\ clk' = [op |-> "mergeClocks", a |-> clk.a, b |-> clk.b,
               out |-> mergeClocks(clk.a, clk.b)]
    /\ UNCHANGED <<c, snap, writes, merges, last, phase, merged>>
    /\ UNCHANGED <<heap, hc, hlast, more>>

\* merge(a, b) on two containers of the same id that have the two clocks as
\* versions, each after at least one write of its own
CallMergeSameId(id) ==
    /\ clk.op = "args"
    /\ ClockGet(clk.a, id) >= 1
    /\ ClockGet(clk.b, id) >= 1
    /\ clk' = [op |-> "merge", id |-> id, a |-> clk.a, b |-> clk.b,
               out |-> merge(Fork(id, clk.a, 1), Fork(id, clk.b, 2))]
    /\ UNCHANGED <<c, snap, writes, merges, last, phase, merged>>
    /\ UNCHANGED <<heap, hc, hlast, more>>

NextClocks ==
    \/ CallMergeClocks
    \/ \E id \in MoreIds : CallMergeSameId(id)

SpecClocks == InitClocks /\ [][NextClocks]_vars

(***************************************************************************)
(* Writes and merges of two replicas on objects with identity.  A replica  *)
(* passes the reference to its current container to the other; every      *)
(* older container stays on the heap.                                      *)
(***************************************************************************)
HeapValues == {1}

InitHeap ==
    /\ InitWith(Ids)
    /\ clk = NoCall
    /\ LET r1 == createContainerH("r1", <<>>)
           r2 == createContainerH("r2", r1.heap)
       IN  /\ heap = r2.heap
           /\ hc = [r \in Ids |-> IF r = "r1" THEN r1.ref ELSE r2.ref]
    /\ hlast = NoCall
    /\ NoMore

\* replica r calls set(path, value, its container); of a call that throws
\* no object stays reachable
HeapSet(r, path, value) ==
    /\ writes < MaxWrites
    /\ LET res == setH(path, value, hc[r], heap)
       IN  IF res.ok
           THEN /\ heap' = res.heap
                /\ hc' = [hc EXCEPT ![r] = res.ref]
                /\ writes' = writes + 1
                /\ hlast' = [op |-> "set", in |-> hc[r], out |-> res.ref,
                             path |-> path, top |-> Len(heap)]
           ELSE /\ hlast' = [op |-> "throw"]
                /\ UNCHANGED <<heap, hc, writes>>
    /\ UNCHANGED <<c, snap, merges, last, phase, merged, clk, more>>

\* replica r calls merge(its container, the container of s); s may be r
HeapMerge(r, s) ==
    /\ merges < MaxMerges
    /\ LET res == mergeH(hc[r], hc[s], heap)
       IN  /\ heap' = res.heap
           /\ hc' = [hc EXCEPT ![r] = res.ref]
           /\ hlast' = [op |-> "merge", in |-> hc[r], other |-> hc[s],
                        out |-> res.ref]
    /\ merges' = merges + 1
    /\ UNCHANGED <<c, snap, writes, last, phase, merged, clk, more>>

NextHeap ==
    \/ \E r \in Ids : \E path \in Paths : \E value \in HeapValues :
            HeapSet(r, path, value)
    \/ \E r, s \in Ids : HeapMerge(r, s)

SpecHeap == InitHeap /\ [][NextHeap]_vars

(***************************************************************************)
(* Writes of either value at two paths and merges by two replicas, on      *)
(* objects with identity: every container and every leaf ever made stays   *)
(* on the heap.                                                            *)
(***************************************************************************)
LeafPaths == {<<"a">>, <<"b">>}

NextLeaves ==
    \/ \E r \in Ids : \E path \in LeafPaths : \E value \in Values :
            HeapSet(r, path, value)
    \/ \E r, s \in Ids : HeapMerge(r, s)

SpecLeaves == InitHeap /\ [][NextLeaves]_vars

(***************************************************************************)
(* Direct calls of set with a compound payload on the empty container of   *)
(* an id, at any of the paths.                                             *)
(***************************************************************************)
InitPayload ==
    /\ InitWith(Ids)
    /\ clk = NoCall
    /\ NoHeap
    /\ pl \in {[op |-> "args", id |-> id, path |-> path, value |-> value] :
                    id \in Ids, path \in Paths, value \in Payloads}
    /\ NoDb
    /\ NoArrays

\* set(path, value, createContainer(id))
CallSetPayload ==
    /\ pl.op = "args"
    /\ pl' = [op |-> "set", id |-> pl.id, path |-> pl.path,
              value |-> pl.value,
              out |-> set(pl.path, pl.value, createContainer(pl.id))]
    /\ UNCHANGED <<c, snap, writes, merges, last, phase, merged>>
    /\ UNCHANGED <<clk, heap, hc, hlast, db, hist, dlast, aheap, alast>>

\* a second call on the container the first call returned, on references:
\* set(path, value, c) with a scalar
CallSetBelow(path, value) ==
    /\ pl.op = "set"
    /\ LET made == createContainerH(pl.id, <<>>)
           first == setH(pl.path, pl.value, made.ref, made.heap)
           res == setH(path, value, first.ref, first.heap)
       IN  pl' = [op |-> "below", id |-> pl.id, path |-> path,
                  value |-> value, c |-> first.ref, before |-> first.heap,
                  out |-> res,
                  after |-> IF res.ok THEN res.heap ELSE first.heap]
    /\ UNCHANGED <<c, snap, writes, merges, last, phase, merged>>
    /\ UNCHANGED <<clk, heap, hc, hlast, db, hist, dlast, aheap, alast>>

NextPayload ==
    \/ CallSetPayload
    \/ \E path \in Paths : \E value \in Scalars : CallSetBelow(path, value)

SpecPayload == InitPayload /\ [][NextPayload]_vars

(***************************************************************************)
(* Direct calls of removeValue and of removePath on the trie two writes    *)
(* of a replica built, at a path below the root that holds a leaf.         *)
(***************************************************************************)
\* the roots of the containers two set calls in a row give
TwoWrites ==
    {second.node.root :
        second \in {res \in {set(p2, v2, first.node) :
                                p2 \in Paths, v2 \in Values,
                                first \in {set(p1, v1, createContainer("r1")) :
                                              p1 \in Paths, v1 \in Values}} :
                        res.ok}}

InitRemove ==
    /\ InitWith(Ids)
    /\ clk = NoCall
    /\ NoHeap
    /\ pl \in {[op |-> "args", trie |-> trie] : trie \in TwoWrites}
    /\ NoDb
    /\ NoArrays

\* removeValue(path, trie)
CallRemoveValue(path) ==
    /\ pl.op = "args"
    /\ get(path, pl.trie) # Undefined
    /\ get(path, pl.trie).nodeType.type = "value"
    /\ pl' = [op |-> "removeValue", trie |-> pl.trie, path |-> path,
              out |-> removeValue(path, pl.trie)]
    /\ UNCHANGED <<c, snap, writes, merges, last, phase, merged>>
    /\ UNCHANGED <<clk, heap, hc, hlast, db, hist, dlast, aheap, alast>>

\* removePath(path, trie)
CallRemovePath(path) ==
    /\ pl.op = "args"
    /\ get(path, pl.trie) # Undefined
    /\ get(path, pl.trie).nodeType.type = "value"
    /\ pl' = [op |-> "removePath", trie |-> pl.trie, path |-> path,
              out |-> removePath(path, pl.trie)]
    /\ UNCHANGED <<c, snap, writes, merges, last, phase, merged>>
    /\ UNCHANGED <<clk, heap, hc, hlast, db, hist, dlast, aheap, alast>>

\* the paths below the root
KeyPaths == Paths \ {<<>>}

NextRemove ==
    \/ \E path \in KeyPaths : CallRemoveValue(path)
    \/ \E path \in KeyPaths : CallRemovePath(path)

SpecRemove == InitRemove /\ [][NextRemove]_vars

(***************************************************************************)
(* Transactions on one database: every operation takes the current         *)
(* database and its result becomes the current database.  The queries      *)
(* (getValue, getEntity, entityExists, asOf) leave it as it is.            *)
(***************************************************************************)
Entities == {"person1", "person2"}
Attributes == {"name", "age"}

\* the attribute-value objects handed to addFacts, by their entries in
\* order: no entry, or both attributes in either order
AvMaps ==
    {<<>>}
    \cup {avMap \in {<<<<a1, v1>>, <<a2, v2>>>> :
                        a1 \in Attributes, a2 \in Attributes,
                        v1 \in Scalars, v2 \in Scalars} :
            avMap[1][1] # avMap[2][1]}

InitDb ==
    /\ InitWith(Ids)
    /\ clk = NoCall
    /\ NoHeap
    /\ NoPayload
    /\ db = createDatabase
    /\ hist = <<>>
    /\ dlast = NoCall
    /\ NoArrays

\* db = addFact(db, entity, attribute, value)
AddFact(entity, attribute, value) ==
    /\ db.nextTx <= MaxTx
    /\ db' = addFact(db, entity, attribute, value)
    /\ hist' = Append(hist, db')
    /\ dlast' = [op |-> "addFact", entity |-> entity, attribute |-> attribute,
                 value |-> value, before |-> db]
    /\ UNCHANGED <<c, snap, writes, merges, last, phase, merged>>
    /\ UNCHANGED <<clk, heap, hc, hlast, pl, aheap, alast>>

\* db = retractFact(db, entity, attribute, value)
RetractFact(entity, attribute, value) ==
    /\ db.nextTx <= MaxTx
    /\ db' = retractFact(db, entity, attribute, value)
    /\ hist' = Append(hist, db')
    /\ dlast' = [op |-> "retractFact", entity |-> entity,
                 attribute |-> attribute, value |-> value, before |-> db]
    /\ UNCHANGED <<c, snap, writes, merges, last, phase, merged>>
    /\ UNCHANGED <<clk, heap, hc, hlast, pl, aheap, alast>>

\* db = addFacts(db, entity, avMap)
AddFacts(entity, avMap) ==
    /\ db.nextTx <= MaxTx
    /\ db' = addFacts(db, entity, avMap)
    /\ hist' = Append(hist, db')
    /\ dlast' = [op |-> "addFacts", entity |-> entity, avMap |-> avMap,
                 before |-> db]
    /\ UNCHANGED <<c, snap, writes, merges, last, phase, merged>>
    /\ UNCHANGED <<clk, heap, hc, hlast, pl, aheap, alast>>

\* db = retractEntity(db, entity)
RetractEntity(entity) ==
    /\ db.nextTx <= MaxTx
    /\ db' = retractEntity(db, entity)
    /\ hist' = Append(hist, db')
    /\ dlast' = [op |-> "retractEntity", entity |-> entity, before |-> db]
    /\ UNCHANGED <<c, snap, writes, merges, last, phase, merged>>
    /\ UNCHANGED <<clk, heap, hc, hlast, pl, aheap, alast>>

NextDb ==
    \/ \E e \in Entities : \E a \in Attributes : \E v \in Scalars :
            AddFact(e, a, v)
    \/ \E e \in Entities : \E a \in Attributes : \E v \in Scalars :
            RetractFact(e, a, v)
    \/ \E e \in Entities : \E avMap \in AvMaps : AddFacts(e, avMap)
    \/ \E e \in Entities : RetractEntity(e)

SpecDb == InitDb /\ [][NextDb]_vars

(***************************************************************************)
(* Persistent arrays: from makes a new array, set and append are called on *)
(* any array made so far, slice on the array made last.  The arrays a      *)
(* slice call makes are held by the record of the call only.               *)
(***************************************************************************)
\* the iterables handed to from, the indices handed to set and the bounds
\* handed to slice
ItemLists ==
    {<<>>} \cup {<<x>> : x \in Scalars} \cup {<<x, y>> : x, y \in Scalars}
SetIndices == {-1, 0, 1, 2, 3}
SliceStarts == {-1, 0, 1, 2, 3}
SliceEnds == {0, 1, 2, 3, 4}

\* references to the PersistentArray objects of heap h
ArrayRefs(h) == {ref \in DOMAIN h : "_size" \in DOMAIN h[ref]}

\* the array made last
LastArray(h) == CHOOSE ref \in ArrayRefs(h) : \A a \in ArrayRefs(h) : a <= ref

InitArrays ==
    /\ InitWith(Ids)
    /\ clk = NoCall
    /\ NoHeap
    /\ NoPayload
    /\ NoDb
    /\ aheap = PersistentArray_empty(<<>>).heap
    /\ alast = NoCall

\* PersistentArray.from(items)
ArrayFrom(items) ==
    /\ Cardinality(ArrayRefs(aheap)) < MaxArrays
    /\ LET res == PersistentArray_from(items, aheap)
       IN  /\ aheap' = res.heap
           /\ alast' = [op |-> "from", items |-> items, out |-> res.ref]
    /\ UNCHANGED <<c, snap, writes, merges, last, phase, merged>>
    /\ UNCHANGED <<clk, heap, hc, hlast, pl, db, hist, dlast>>

\* array.set(index, value); a thrown Error leaves the objects as they were
ArraySet(array, index, value) ==
    /\ Cardinality(ArrayRefs(aheap)) < MaxArrays
    /\ LET res == PersistentArray_set(array, index, value, aheap)
       IN  IF res.ok
           THEN /\ aheap' = res.heap
                /\ alast' = [op |-> "set", in |-> array, index |-> index,
                             value |-> value, ok |-> TRUE, out |-> res.ref]
           ELSE /\ aheap' = aheap
                /\ alast' = [op |-> "set", in |-> array, index |-> index,
                             value |-> value, ok |-> FALSE,
                             error |-> res.error]
    /\ UNCHANGED <<c, snap, writes, merges, last, phase, merged>>
    /\ UNCHANGED <<clk, heap, hc, hlast, pl, db, hist, dlast>>

\* array.append(value)
ArrayAppend(array, value) ==
    /\ Cardinality(ArrayRefs(aheap)) < MaxArrays
    /\ LET res == PersistentArray_append(array, value, aheap)
       IN  /\ aheap' = res.heap
           /\ alast' = [op |-> "append", in |-> array, value |-> value,
                        out |-> res.ref]
    /\ UNCHANGED <<c, snap, writes, merges, last, phase, merged>>
    /\ UNCHANGED <<clk, heap, hc, hlast, pl, db, hist, dlast>>

\* array.slice(start, end) on the array made last: the record of the call
\* holds the result and the objects the call allocated
ArraySlice(start, end) ==
    /\ alast.op # "slice"
    /\ LET array == LastArray(aheap)
           res == PersistentArray_slice(array, start, end, aheap)
       IN  alast' = [op |-> "slice", in |-> array, start |-> start,
                     end |-> end, out |-> res.ref, heap |-> res.heap]
    /\ UNCHANGED aheap
    /\ UNCHANGED <<c, snap, writes, merges, last, phase, merged>>
    /\ UNCHANGED <<clk, heap, hc, hlast, pl, db, hist, dlast>>

NextArrays ==
    \/ \E items \in ItemLists : ArrayFrom(items)
    \/ \E array \in ArrayRefs(aheap) : \E index \in SetIndices :
            \E value \in Scalars : ArraySet(array, index, value)
    \/ \E array \in ArrayRefs(aheap) : \E value \in Scalars :
            ArrayAppend(array, value)
    \/ \E start \in SliceStarts : \E end \in SliceEnds :
            ArraySlice(start, end)

SpecArrays == InitArrays /\ [][NextArrays]_vars

(***************************************************************************)
(* Notions the properties are stated in.                                   *)
(***************************************************************************)
\* a is causally before b: <= on every id of either clock, < on at least one
Before(a, b) ==
    /\ \A k \in (DOMAIN a) \cup (DOMAIN b) : ClockGet(a, k) <= ClockGet(b, k)
    /\ \E k \in (DOMAIN a) \cup (DOMAIN b) : ClockGet(a, k) < ClockGet(b, k)

\* neither clock dominates the other
Concurrent(a, b) ==
    /\ \E k \in (DOMAIN a) \cup (DOMAIN b) : ClockGet(a, k) < ClockGet(b, k)
    /\ \E k \in (DOMAIN a) \cup (DOMAIN b) : ClockGet(a, k) > ClockGet(b, k)

\* two clocks with the same entries, a missing entry counting as 0
SameClock(a, b) ==
    \A k \in (DOMAIN a) \cup (DOMAIN b) : ClockGet(a, k) = ClockGet(b, k)

IsValue(node) == node # Undefined /\ node.nodeType.type = "value"
IsBranch(node) == node # Undefined /\ node.nodeType.type = "branch"

\* the leaf at path, or undefined when the path holds no leaf
LeafAt(path, trie) ==
    LET node == get(path, trie) IN IF IsValue(node) THEN node ELSE Undefined

\* the same leaf (value and leaf version) at every path
SameContent(t1, t2) ==
    \A path \in Paths : LeafAt(path, t1) = LeafAt(path, t2)

\* the same leaves at and below path
SameContentAt(path, t1, t2) ==
    \A q \in Paths :
        (Len(q) >= Len(path) /\ SubSeq(q, 1, Len(path)) = path)
            => LeafAt(q, t1) = LeafAt(q, t2)

\* one path is a prefix of the other, or they are equal
Overlap(p, q) ==
    \/ Len(p) <= Len(q) /\ SubSeq(q, 1, Len(p)) = p
    \/ Len(q) <= Len(p) /\ SubSeq(p, 1, Len(q)) = q

\* the containers that exist in a state: current and published
Containers == {c[r] : r \in Replicas} \cup {snap[r] : r \in Replicas}

\* the clocks that exist in a state: container versions and leaf versions
Clocks ==
    {x.version : x \in Containers}
        \cup {LeafAt(path, x.root).nodeType.version :
                <<x, path>> \in {y \in Containers \X Paths :
                                    LeafAt(y[2], y[1].root) # Undefined}}

\* every replica has merged the final container of every other replica
Converged ==
    /\ phase = "sync"
    /\ \A r \in Replicas : merged[r] = Replicas \ {r}

(***************************************************************************)
(* The properties.                                                         *)
(***************************************************************************)
\* C1: once the writes stopped and every replica merged the final containers
\* of all the others, all replicas hold the same version and the same leaf at
\* every path.
C1_Convergence ==
    Converged =>
        \A r, s \in Replicas :
            /\ c[r].version = c[s].version
            /\ SameContent(c[r].root, c[s].root)

\* C2: for two containers with different ids built by set calls only,
\* merge(a,b) and merge(b,a) have equal versions and equal content.
C2_MergeCommutes ==
    \A r, s \in Replicas :
        r # s =>
            LET ab == merge(c[r], c[s])
                ba == merge(c[s], c[r])
            IN  /\ ab.version = ba.version
                /\ SameContent(ab.root, ba.root)

\* C3: for three containers with pairwise different ids,
\* merge(merge(a,b),c) and merge(a,merge(b,c)) have equal versions and equal
\* content.
C3_MergeAssociates ==
    \A r, s, t \in Replicas :
        (r # s /\ s # t /\ r # t) =>
            LET left == merge(merge(c[r], c[s]), c[t])
                right == merge(c[r], merge(c[s], c[t]))
            IN  /\ left.version = right.version
                /\ SameContent(left.root, right.root)

\* C4: a path written on one side that no path written on the other side
\* equals, prefixes or extends resolves in merge(a,b) and in merge(b,a) to the
\* leaf that side wrote.
C4_NoLostWrite ==
    \A r, s \in Replicas : \A p \in Paths :
        (/\ r # s
         /\ LeafAt(p, c[r].root) # Undefined
         /\ \A q \in Paths :
                LeafAt(q, c[s].root) # Undefined => ~Overlap(p, q))
        => /\ get(p, merge(c[r], c[s]).root) = LeafAt(p, c[r].root)
           /\ get(p, merge(c[s], c[r]).root) = LeafAt(p, c[r].root)

\* C5: happensBefore(a, b) is true exactly when every entry of a is <= the
\* entry of b over the ids of either clock and at least one is strictly less.
C5_HappensBeforeExact ==
    \A a, b \in Clocks : happensBefore(a, b) <=> Before(a, b)

\* C6: two containers with different ids, each built by at least one set and
\* never merged, have concurrent versions: happensBefore is false in both
\* directions.
C6_IndependentConcurrent ==
    \A r, s \in Replicas :
        (r # s /\ c[r].version[r] >= 1 /\ c[s].version[s] >= 1) =>
            /\ ~happensBefore(c[r].version, c[s].version)
            /\ ~happensBefore(c[s].version, c[r].version)

\* C7: when a replica writes a path at which its state already holds a
\* leaf (in particular a leaf written by a replica with a different id),
\* happensBefore(version of that leaf, version of the new leaf) is true and
\* happensBefore in the reverse direction is false.
C7_CausalityTracked ==
    (last.op = "set" /\ last.error = "" /\ IsValue(last.old)) =>
        LET first == last.old.nodeType.version
            second == get(last.path, c[last.id].root).nodeType.version
        IN  /\ happensBefore(first, second)
            /\ ~happensBefore(second, first)

\* a replica has just overwritten a leaf that carries no write of its own,
\* hence a leaf written by a replica with a different id
C7_Witness ==
    /\ last.op = "set" /\ last.error = "" /\ IsValue(last.old)
    /\ ClockGet(last.old.nodeType.version, last.id) = 0
    /\ \E k \in DOMAIN last.old.nodeType.version :
            k # last.id /\ last.old.nodeType.version[k] >= 1
    /\ IsValue(get(last.path, c[last.id].root))
    /\ get(last.path, c[last.id].root).nodeType.version = c[last.id].version

\* C8: when both sides of a merge hold a leaf at the same path and one leaf's
\* version is causally before the other's, the merged tree holds the causally
\* later leaf at that path, whichever side it was passed on.
C8_LaterLeafWins ==
    \A p \in Paths : \A x \in Containers :
        LET earlier == LeafAt(p, x.root)
        IN  earlier # Undefined =>
                \A y \in Containers :
                    LET later == LeafAt(p, y.root)
                    IN  (/\ later # Undefined
                         /\ Before(earlier.nodeType.version,
                                   later.nodeType.version))
                        => /\ get(p, mergeTries(x.root, y.root)) = later
                           /\ get(p, mergeTries(y.root, x.root)) = later

\* two containers hold different leaves at one path, one causally before the
\* other, and the merge in either order holds the later one
C8_Witness ==
    \E x, y \in Containers : \E p \in Paths :
        /\ x.id # y.id
        /\ LeafAt(p, x.root) # Undefined
        /\ LeafAt(p, y.root) # Undefined
        /\ Before(LeafAt(p, x.root).nodeType.version,
                  LeafAt(p, y.root).nodeType.version)
        /\ LeafAt(p, x.root).nodeType.value # LeafAt(p, y.root).nodeType.value
        /\ get(p, merge(x, y).root) = LeafAt(p, y.root)
        /\ get(p, merge(y, x).root) = LeafAt(p, y.root)

\* C9: when both sides of a merge hold a leaf at the same path and the two
\* versions are concurrent, the merged leaf's version is the pointwise maximum
\* of the two and merge(a,b) and merge(b,a) pick the same value.
C9_ConcurrentLeavesConverge ==
    \A x, y \in Containers : \A p \in Paths :
        (/\ LeafAt(p, x.root) # Undefined
         /\ LeafAt(p, y.root) # Undefined
         /\ Concurrent(LeafAt(p, x.root).nodeType.version,
                       LeafAt(p, y.root).nodeType.version))
        => LET xy == get(p, mergeTries(x.root, y.root))
               yx == get(p, mergeTries(y.root, x.root))
               xv == LeafAt(p, x.root).nodeType.version
               yv == LeafAt(p, y.root).nodeType.version
           IN  /\ \A k \in (DOMAIN xv) \cup (DOMAIN yv) :
                      ClockGet(xy.nodeType.version, k)
                          = Max(ClockGet(xv, k), ClockGet(yv, k))
               /\ xy.nodeType.value = yx.nodeType.value

\* C10: when a path holds a leaf on one side of a merge and a branch on the
\* other, merge(a,b) and merge(b,a) have the same content at that path.
C10_StructuralConflictDeterministic ==
    \A x, y \in Containers : \A p \in Paths :
        (/\ x.id # y.id
         /\ IsValue(get(p, x.root))
         /\ IsBranch(get(p, y.root)))
        => SameContentAt(p, merge(x, y).root, merge(y, x).root)

\* the current container of replica r, by value
Current(r) == ContainerAt(hc[r], heap)

\* C11: for every reachable container a, merge(a, a) returns a container
\* equal to a: same id, version and root.  On objects it returns a itself.
C11_SelfMergeIdempotent ==
    \A r \in DOMAIN hc :
        LET x == Current(r)
        IN  /\ merge(x, x) = x
            /\ mergeH(hc[r], hc[r], heap) = [ref |-> hc[r], heap |-> heap]

\* a replica that has written and merged has merged its container with
\* itself
C11_Witness ==
    /\ hlast.op = "merge"
    /\ hlast.other = hlast.in
    /\ hlast.out = hlast.in
    /\ LET x == ContainerAt(hlast.in, heap)
       IN  /\ Cardinality(DOMAIN x.version) = 2
           /\ \A k \in DOMAIN x.version : x.version[k] >= 1
           /\ \E p \in Paths : LeafAt(p, x.root) # Undefined

\* merging y into x a second time changes neither the version nor what get
\* returns at any path
Redelivered(x, y) ==
    LET once == merge(x, y)
        twice == merge(once, y)
    IN  /\ twice.version = once.version
        /\ \A path \in Paths : get(path, twice.root) = get(path, once.root)

\* C12: for containers a and b with different ids, merge(merge(a,b), b) has
\* the same version and the same content at every path as merge(a,b).  Of
\* any two containers the one created later was current when the other
\* existed, so the pairs of a current and an existing container are all.
C12_RedeliveryHarmless ==
    \A r \in DOMAIN hc :
        LET x == Current(r)
        IN  \A ref \in ContainerRefs(heap) :
                heap[ref].id # r =>
                    LET y == ContainerAt(ref, heap)
                    IN  Redelivered(x, y) /\ Redelivered(y, x)

\* a replica merged another replica's container a second time: the result
\* is a new container equal to the one it had, both hold a leaf at one path
C12_Witness ==
    /\ hlast.op = "merge"
    /\ heap[hlast.other].id # heap[hlast.in].id
    /\ hlast.out # hlast.in
    /\ ContainerAt(hlast.out, heap) = ContainerAt(hlast.in, heap)
    /\ \E p \in Paths :
            /\ LeafAt(p, ContainerAt(hlast.in, heap).root) # Undefined
            /\ LeafAt(p, ContainerAt(hlast.other, heap).root) # Undefined

\* C13: for containers a and b with the same id, merge(a,b) returns one of
\* the two inputs unchanged, and the version of the returned one is not
\* causally before the version of the other.
C13_SameIdFastPath ==
    clk.op = "merge" =>
        LET a == Fork(clk.id, clk.a, 1)
            b == Fork(clk.id, clk.b, 2)
        IN  /\ clk.out \in {a, b}
            /\ clk.out = a => ~Before(a.version, b.version)
            /\ clk.out = b => ~Before(b.version, a.version)

\* two containers of one id with concurrent versions were merged and the
\* second was returned
C13_Witness ==
    /\ clk.op = "merge"
    /\ Concurrent(clk.a, clk.b)
    /\ clk.out = Fork(clk.id, clk.b, 2)

\* C14: mergeClocks(a, b) has the union of the keys of a and b as keys, and
\* each entry is the maximum of a[k] or 0 and b[k] or 0.
C14_MergeClocksPointwiseMax ==
    clk.op = "mergeClocks" =>
        /\ DOMAIN clk.out = (DOMAIN clk.a) \cup (DOMAIN clk.b)
        /\ \A k \in DOMAIN clk.out :
                /\ clk.out[k] >= ClockGet(clk.a, k)
                /\ clk.out[k] >= ClockGet(clk.b, k)
                /\ clk.out[k] \in {ClockGet(clk.a, k), ClockGet(clk.b, k)}

\* merging {r1:1, r2:2} with {r2:3, r3:1} gave {r1:1, r2:3, r3:1}
C14_Witness ==
    /\ clk.op = "mergeClocks"
    /\ clk.a = [k \in {"r1", "r2"} |-> IF k = "r1" THEN 1 ELSE 2]
    /\ clk.b = [k \in {"r2", "r3"} |-> IF k = "r2" THEN 3 ELSE 1]
    /\ clk.out = [k \in {"r1", "r2", "r3"} |-> IF k = "r2" THEN 3 ELSE 1]

\* C15: mergeClocks is commutative, associative and idempotent, comparing
\* clocks as maps.
C15_MergeClocksSemilattice ==
    clk.op = "mergeClocks" =>
        /\ clk.out = mergeClocks(clk.b, clk.a)
        /\ mergeClocks(clk.a, clk.a) = clk.a
        /\ \A z \in ClockSpace :
                mergeClocks(clk.out, z)
                    = mergeClocks(clk.a, mergeClocks(clk.b, z))

\* two clocks with different keys, each larger than the other somewhere,
\* were merged
C15_Witness ==
    /\ clk.op = "mergeClocks"
    /\ DOMAIN clk.a # DOMAIN clk.b
    /\ Concurrent(clk.a, clk.b)
    /\ clk.out # clk.a
    /\ clk.out # clk.b

\* C16: a set that returns gives a container whose version is that of the
\* input except that the entry of the input's id is one greater; no other
\* entry changes and the id is the same.
C16_SetBumpsOwnEntryOnly ==
    \A r \in DOMAIN hc :
        LET x == Current(r)
        IN  \A path \in Paths : \A value \in Values :
                LET res == set(path, value, x)
                IN  res.ok =>
                        /\ res.node.id = x.id
                        /\ DOMAIN res.node.version = DOMAIN x.version
                        /\ res.node.version[x.id] = x.version[x.id] + 1
                        /\ \A k \in DOMAIN x.version :
                                k # x.id
                                    => res.node.version[k] = x.version[k]

\* a replica that has merged another replica's writes has written: its own
\* entry went up by one, the other's stayed
C16_Witness ==
    /\ hlast.op = "set"
    /\ LET old == ContainerAt(hlast.in, heap).version
           new == ContainerAt(hlast.out, heap).version
           id == heap[hlast.in].id
       IN  /\ new[id] = old[id] + 1
           /\ \E k \in DOMAIN old : k # id /\ old[k] >= 1 /\ new[k] = old[k]

\* C17: a container's version never regresses: for any container d
\* obtained from a container c by any sequence of set calls and merges, with
\* the container of the lineage in either argument position, d.version is
\* never causally before c.version.
C17_VersionNeverRegresses ==
    \A r \in Replicas : ~Before(c[r].version, snap[r].version)

\* no proper prefix of path resolves to a leaf of trie
NoLeafAbove(path, trie) ==
    \A i \in 0..(Len(path) - 1) : ~IsValue(get(SubSeq(path, 1, i), trie))

\* C20: for a container and a path no proper prefix of which resolves to a
\* leaf, set(path, value, container) returns, get(path) on its root is a
\* leaf, and toValue of that leaf is value.
C20_ReadYourWrite ==
    \A r \in DOMAIN hc :
        LET x == Current(r)
        IN  \A path \in Paths : \A value \in Values :
                NoLeafAbove(path, x.root) =>
                    LET res == set(path, value, x)
                    IN  /\ res.ok
                        /\ IsValue(get(path, res.node.root))
                        /\ toValue(get(path, res.node.root)) = value

\* a replica has just written below a branch that holds another leaf, and
\* reads what it wrote, and the branch as an object with both values
C20_Witness ==
    /\ hlast.op = "set"
    /\ Len(hlast.path) = 2
    /\ LET root == ContainerAt(hlast.out, heap).root
       IN  /\ IsValue(get(<<"a", "a">>, root))
           /\ IsValue(get(<<"a", "b">>, root))
           /\ toValue(get(hlast.path, root)) \in HeapValues
           /\ DOMAIN toValue(get(<<"a">>, root)) = {"a", "b"}

\* the references to the nodes of the trie below ref
RECURSIVE NodeRefs(_, _)
NodeRefs(ref, h) ==
    IF h[ref].nodeType.type = "value" THEN {ref}
    ELSE {ref} \cup UNION {NodeRefs(h[ref].nodeType.children[key], h) :
                               key \in DOMAIN h[ref].nodeType.children}

\* the references to the nodes along path in the trie below ref
AlongPath(path, ref, h) ==
    {getH(SubSeq(path, 1, i), ref, h) : i \in 0..Len(path)}

\* C18: after c2 = set(path, v, c1), every child of a branch of c1.root on
\* the path, under a key other than the path's, is the same object in
\* c2.root; the nodes along path are new objects, and no other node of
\* c2.root is new.
C18_StructuralSharing ==
    hlast.op = "set" =>
        LET in == heap[hlast.in].root
            out == heap[hlast.out].root
            path == hlast.path
        IN  /\ \A i \in 0..(Len(path) - 1) :
                    LET old == getH(SubSeq(path, 1, i), in, heap)
                        new == getH(SubSeq(path, 1, i), out, heap)
                    IN  old # NoRef =>
                            \A key \in DOMAIN heap[old].nodeType.children :
                                key # path[i + 1] =>
                                    /\ key \in DOMAIN heap[new].nodeType.children
                                    /\ heap[new].nodeType.children[key]
                                         = heap[old].nodeType.children[key]
            /\ \A ref \in AlongPath(path, out, heap) :
                    ref # NoRef /\ ref > hlast.top
            /\ \A ref \in NodeRefs(out, heap) :
                    ref > hlast.top => ref \in AlongPath(path, out, heap)

\* a set below a branch that holds another child: the new branch holds the
\* same child object
C18_Witness ==
    /\ hlast.op = "set"
    /\ Len(hlast.path) = 2
    /\ \E key \in {"a", "b"} :
            /\ key # hlast.path[2]
            /\ getH(<<hlast.path[1], key>>, heap[hlast.in].root, heap) # NoRef
            /\ getH(<<hlast.path[1], key>>, heap[hlast.out].root, heap)
                 = getH(<<hlast.path[1], key>>, heap[hlast.in].root, heap)

\* C19: set and merge never modify the containers they are given: no call
\* changes an object that exists, so every container ever created, current
\* or older, stands for the same version and the same trie after the call
\* as before it, and get returns the same at every path.
C19_OlderVersionsStayValid ==
    [][/\ Len(heap') >= Len(heap)
       /\ \A ref \in DOMAIN heap : heap'[ref] = heap[ref]
       /\ \A ref \in ContainerRefs(heap) :
            ContainerAt(ref, heap') = ContainerAt(ref, heap)]_vars

\* a merge made a new container out of two that hold leaves, and both still
\* read as they did: the first without the leaf it lacked
C19_Witness ==
    /\ hlast.op = "merge"
    /\ hlast.out \notin {hlast.in, hlast.other}
    /\ \E p, q \in Paths :
            /\ LeafAt(p, ContainerAt(hlast.in, heap).root) # Undefined
            /\ LeafAt(q, ContainerAt(hlast.in, heap).root) = Undefined
            /\ LeafAt(q, ContainerAt(hlast.other, heap).root) # Undefined
            /\ LeafAt(q, ContainerAt(hlast.out, heap).root) # Undefined

(***************************************************************************)
(* Compound payloads.                                                      *)
(***************************************************************************)
\* the elements of a compound payload under the keys they are addressed by:
\* the indices of an array as strings, the keys of an object
Elements(x) ==
    IF x.kind = "array"
    THEN [key \in {ToString(i - 1) : i \in DOMAIN x.items} |->
            x.items[CHOOSE i \in DOMAIN x.items : ToString(i - 1) = key]]
    ELSE IF x.kind = "object" THEN x.fields
    ELSE [key \in {} |-> x]

\* every element of payload x is below node under its key, at every depth
RECURSIVE Decomposed(_, _)
Decomposed(x, node) ==
    \A key \in DOMAIN Elements(x) :
        LET child == IF node = Undefined THEN Undefined
                     ELSE get(<<key>>, node)
        IN  /\ toValue(child) = Elements(x)[key]
            /\ Decomposed(Elements(x)[key], child)

\* the proper prefixes of path
ProperPrefixes(path) == {SubSeq(path, 1, n) : n \in 0..(Len(path) - 1)}

\* C21: after set(p, x, c) with an array or an object x, every element of x
\* is reachable below p under its index or key and toValue of the node
\* found there is the element, at every depth of nesting.
C21_Decomposition ==
    pl.op = "set" =>
        Decomposed(pl.value, get(pl.path, pl.out.node.root))

\* C22: toValue(get(p, root)) is x after set(p, x, c) on an empty container,
\* for scalars, arrays, objects, nested and mixed payloads and the empty
\* array and the empty object.
C22_RoundTrip ==
    pl.op = "set" =>
        toValue(get(pl.path, pl.out.node.root)) = pl.value

C22_Witness ==
    /\ pl.op = "set"
    /\ Len(pl.path) = 2
    /\ pl.value.kind = "array"
    /\ Len(pl.value.items) = 2
    /\ pl.value.items[2] = Object([a |-> Array(<<>>)])
    /\ toValue(get(pl.path, pl.out.node.root)) = pl.value

\* C23: set(p, v, c) where a proper prefix of p resolves to a value leaf of
\* c throws 'Cannot set path on value node' and returns no container, and
\* c still has the root and the version it had.
C23_SetThroughLeafThrows ==
    pl.op = "below" =>
        LET x == ContainerAt(pl.c, pl.before)
        IN  (\E q \in ProperPrefixes(pl.path) : IsValue(get(q, x.root)))
                => /\ pl.out = Throw(SetError)
                   /\ pl.after = pl.before
                   /\ ContainerAt(pl.c, pl.after) = x

C23_Witness ==
    /\ pl.op = "below"
    /\ Len(pl.path) = 2
    /\ IsValue(get(<<Head(pl.path)>>, ContainerAt(pl.c, pl.before).root))
    /\ pl.out = Throw(SetError)

\* the value node at path below the root of the container at ref, or NoRef
LeafRef(path, ref) ==
    LET node == getH(path, heap[ref].root, heap)
    IN  IF node # NoRef /\ heap[node].nodeType.type = "value" THEN node
        ELSE NoRef

\* C24: with one replica per id that writes to its most recent container,
\* two leaves at the same path of any two containers made so far that carry
\* equal version clocks carry equal values.
C24_EqualVersionsEqualValues ==
    \A path \in Paths : \A x, y \in ContainerRefs(heap) :
        LET n == LeafRef(path, x)
            m == LeafRef(path, y)
        IN  \/ n = NoRef
            \/ m = NoRef
            \/ n = m
            \/ heap[heap[n].nodeType.version] # heap[heap[m].nodeType.version]
            \/ heap[n].nodeType.value = heap[m].nodeType.value

C24_Witness ==
    \E path \in Paths : \E x, y, z \in ContainerRefs(heap) :
        /\ heap[x].id # heap[y].id
        /\ LeafRef(path, x) # NoRef
        /\ LeafRef(path, y) # NoRef
        /\ LeafRef(path, z) # NoRef
        /\ heap[heap[LeafRef(path, x)].nodeType.version]
                = heap[heap[LeafRef(path, y)].nodeType.version]
        /\ heap[LeafRef(path, z)].nodeType.value
                # heap[LeafRef(path, x)].nodeType.value

(***************************************************************************)
(* Removal.                                                                *)
(***************************************************************************)
\* every leaf of t1 at a path other than path is the same leaf in t2
OtherLeavesIntact(path, t1, t2) ==
    \A q \in Paths :
        (q # path /\ IsValue(get(q, t1))) => get(q, t2) = get(q, t1)

\* no branch above path in trie is without children, the root aside
NoEmptyBranchAbove(path, trie) ==
    \A q \in ProperPrefixes(path) :
        LET node == get(q, trie)
        IN  (Len(q) >= 1 /\ IsBranch(node))
                => DOMAIN node.nodeType.children # {}

\* C25: removeValue(p, t) on a leaf keeps the path (get finds a node, has is
\* true) with toValue undefined and the other leaves intact; removePath(p, t)
\* takes the path away (get finds nothing, has is false), leaves no branch
\* above it without children and gives the empty trie when no leaf remains,
\* the other leaves intact.
C25_TombstoneDistinction ==
    /\ pl.op = "removeValue" =>
            /\ get(pl.path, pl.out) # Undefined
            /\ has(pl.path, pl.out)
            /\ toValue(get(pl.path, pl.out)) = Undefined
            /\ OtherLeavesIntact(pl.path, pl.trie, pl.out)
    /\ pl.op = "removePath" =>
            /\ get(pl.path, pl.out) = Undefined
            /\ ~has(pl.path, pl.out)
            /\ NoEmptyBranchAbove(pl.path, pl.out)
            /\ (\A q \in Paths : ~IsValue(get(q, pl.out))) => pl.out = empty
            /\ OtherLeavesIntact(pl.path, pl.trie, pl.out)

C25_Witness ==
    /\ pl.op = "removeValue"
    /\ pl.path = <<"a", "b">>
    /\ IsValue(get(<<"a", "a">>, pl.trie))
    /\ get(<<"a", "a">>, pl.out) = get(<<"a", "a">>, pl.trie)
    /\ IsBranch(get(pl.path, pl.out))
    /\ toValue(get(pl.path, pl.out)) = Undefined

(***************************************************************************)
(* The EAVT database.                                                      *)
(***************************************************************************)
\* the positions of the facts about entity and attribute in database d
FactsAbout(d, entity, attribute) ==
    {i \in DOMAIN d.facts : /\ d.facts[i].entity = entity
                            /\ d.facts[i].attribute = attribute}

\* C26: getValue(db, e, a) is the value of the one fact about (e, a) with
\* the highest txId when that fact is an assertion, and null when it is a
\* retraction or there is no fact about (e, a); right after addFact(e, a, v)
\* it is v and right after retractFact(e, a, v) it is null.
C26_GetValueLatestFact ==
    /\ \A e \in Entities : \A a \in Attributes :
            LET about == FactsAbout(db, e, a)
            IN  IF about = {} THEN getValue(db, e, a) = Null
                ELSE \E i \in about :
                        /\ \A j \in about \ {i} :
                                db.facts[j].txId < db.facts[i].txId
                        /\ getValue(db, e, a) =
                                IF db.facts[i].added THEN db.facts[i].value
                                ELSE Null
    /\ dlast.op = "addFact" =>
            getValue(db, dlast.entity, dlast.attribute) = dlast.value
    /\ dlast.op = "retractFact" =>
            getValue(db, dlast.entity, dlast.attribute) = Null

C26_Witness ==
    /\ dlast.op = "retractFact"
    /\ getValue(dlast.before, dlast.entity, dlast.attribute) = dlast.value
    /\ Cardinality(FactsAbout(db, dlast.entity, dlast.attribute)) = 3
    /\ getValue(db, dlast.entity, dlast.attribute) = Null

\* C27: for the database d right after the transaction with id t and the
\* current database, derived from d by addFact, addFacts, retractFact and
\* retractEntity, asOf(db, t) has the facts and the nextTx of d, and so
\* getEntity gives the same for both.
C27_AsOfIsPastDatabase ==
    \A i \in DOMAIN hist :
        LET d == hist[i]
            view == asOf(db, d.nextTx - 1)
        IN  /\ view.facts = d.facts
            /\ view.nextTx = d.nextTx
            /\ \A e \in Entities : getEntity(view, e) = getEntity(d, e)

C27_Witness ==
    /\ dlast.op = "retractEntity"
    /\ Len(hist) = 3
    /\ DOMAIN getEntity(asOf(db, 1), dlast.entity) = {"name"}
    /\ DOMAIN getEntity(asOf(db, 2), dlast.entity) = Attributes
    /\ DOMAIN getEntity(asOf(db, 3), dlast.entity) = {}
    /\ asOf(db, 2) = hist[2]

\* C28: right after retractEntity(db, e), whatever came before,
\* entityExists(e) is false, getEntity(e) is the empty object and
\* getValue(e, a) is null for every attribute, and getEntity of every other
\* entity is what it was.
C28_RetractEntityClears ==
    dlast.op = "retractEntity" =>
        /\ ~entityExists(db, dlast.entity)
        /\ getEntity(db, dlast.entity) = <<>>
        /\ \A a \in Attributes : getValue(db, dlast.entity, a) = Null
        /\ \A e \in Entities \ {dlast.entity} :
                getEntity(db, e) = getEntity(dlast.before, e)

C28_Witness ==
    /\ dlast.op = "retractEntity"
    /\ DOMAIN getEntity(dlast.before, dlast.entity) = Attributes
    /\ \E e \in Entities \ {dlast.entity} : entityExists(db, e)
    /\ ~entityExists(db, dlast.entity)

(***************************************************************************)
(* Persistent arrays.                                                      *)
(***************************************************************************)
\* the indices at which the arrays are read
ReadIndices == {-1, 0, 1, 2, 3, 4}

\* what the array at ref of heap h shows: its size and what get returns
ArrayView(ref, h) ==
    [size |-> PersistentArray_size(ref, h),
     items |-> [i \in ReadIndices |-> PersistentArray_get(ref, i, h)]]

\* the smaller of two numbers
Min(x, y) == IF x <= y THEN x ELSE y

\* C29: array.slice(start, end) has the size
\* max(0, min(size, end) - max(0, start)) and its element i is
\* array.get(max(0, start) + i), for every array made by from, set and append,
\* arrays with unset indices included.
C29_SliceClamped ==
    alast.op = "slice" =>
        LET from == Max(0, alast.start)
            to == Min(PersistentArray_size(alast.in, aheap), alast.end)
            size == Max(0, to - from)
        IN  /\ PersistentArray_size(alast.out, alast.heap) = size
            /\ \A i \in 0..(size - 1) :
                    PersistentArray_get(alast.out, i, alast.heap)
                        = PersistentArray_get(alast.in, from + i, aheap)

\* C30: array.set(i, v) with i >= 0 returns a new array with get(i) = v, the
\* size max(old size, i + 1) and get(j) of the original for every other j;
\* with i < 0 it throws and no object changes; and every array made so far
\* keeps its size and contents through every later call on any array.
C30_SetFrame ==
    [][/\ \A a \in ArrayRefs(aheap) :
            /\ a \in ArrayRefs(aheap')
            /\ ArrayView(a, aheap') = ArrayView(a, aheap)
       /\ alast'.op = "set" =>
            IF alast'.index >= 0
            THEN /\ alast'.ok
                 /\ PersistentArray_get(alast'.out, alast'.index, aheap')
                        = alast'.value
                 /\ PersistentArray_size(alast'.out, aheap')
                        = Max(PersistentArray_size(alast'.in, aheap),
                              alast'.index + 1)
                 /\ \A j \in ReadIndices \ {alast'.index} :
                        PersistentArray_get(alast'.out, j, aheap')
                            = PersistentArray_get(alast'.in, j, aheap)
            ELSE /\ ~alast'.ok
                 /\ alast'.error = IndexError
                 /\ aheap' = aheap]_vars

C30_Witness ==
    /\ alast.op = "set"
    /\ alast.ok
    /\ alast.index > PersistentArray_size(alast.in, aheap)
    /\ \E a \in ArrayRefs(aheap) :
            /\ alast.in < a
            /\ a < alast.out
            /\ aheap[a].trie # aheap[alast.in].trie

(***************************************************************************)
(* Writes and merges by value.                                             *)
(***************************************************************************)
\* the step is a set call of replica r that returned
SetReturned(r) ==
    /\ writes' = writes + 1
    /\ last'.op = "set"
    /\ last'.id = r

\* C31: a write leaves unrelated paths alone: after set(p, v, c) every path
\* q that is neither a prefix nor an extension of p resolves on the new root
\* to what it resolved to on c.root: the same leaf (value and leaf version),
\* the same branch, or nothing in both.
C31_WriteLeavesUnrelatedPathsAlone ==
    [][\A r \in Replicas :
            SetReturned(r) =>
                \A q \in Paths :
                    ~Overlap(last'.path, q)
                        => get(q, c'[r].root) = get(q, c[r].root)]_vars

\* a replica has written at a path next to a leaf of an earlier version,
\* which is still there
C31_Witness ==
    /\ last.op = "set"
    /\ last.error = ""
    /\ \E q \in Paths :
            /\ ~Overlap(last.path, q)
            /\ Len(q) = 2
            /\ Len(last.path) = 2
            /\ LeafAt(q, c[last.id].root) # Undefined
            /\ LeafAt(q, c[last.id].root).nodeType.version
                    # c[last.id].version

\* C32: for containers a and b with different ids, merge(a, b) has the id
\* of a, the root mergeTries(a.root, b.root), and as its version the
\* pointwise maximum of a.version and b.version: an entry for every id of
\* either version, each the larger of the two counters.
C32_MergeOfDifferentIds ==
    (last.op = "merge" /\ last.a.id # last.b.id) =>
        LET a == last.a
            b == last.b
            out == last.out
        IN  /\ out.id = a.id
            /\ out.root = mergeTries(a.root, b.root)
            /\ DOMAIN out.version = (DOMAIN a.version) \cup (DOMAIN b.version)
            /\ \A k \in DOMAIN out.version :
                    /\ out.version[k] >= ClockGet(a.version, k)
                    /\ out.version[k] >= ClockGet(b.version, k)
                    /\ out.version[k] \in {ClockGet(a.version, k),
                                           ClockGet(b.version, k)}

\* a replica that has written has merged the container of the other, which
\* has written at another path: the result holds both leaves and both
\* counters
C32_Witness ==
    /\ last.op = "merge"
    /\ last.a.id # last.b.id
    /\ last.a.version[last.a.id] >= 1
    /\ last.b.version[last.b.id] >= 1
    /\ last.out.version[last.a.id] = last.a.version[last.a.id]
    /\ last.out.version[last.b.id] = last.b.version[last.b.id]
    /\ \E p, q \in Paths :
            /\ p # q
            /\ LeafAt(p, last.a.root) # Undefined
            /\ LeafAt(p, last.b.root) = Undefined
            /\ LeafAt(q, last.b.root) # Undefined
            /\ LeafAt(q, last.a.root) = Undefined
            /\ LeafAt(p, last.out.root) = LeafAt(p, last.a.root)
            /\ LeafAt(q, last.out.root) = LeafAt(q, last.b.root)
            /\ last.out = c[last.a.id]

\* C34: in every container reachable from createContainer by set and
\* merge, the version of every leaf of the root is pointwise <= the
\* version of the container.
C34_ContainerVersionDominatesLeaves ==
    \A r \in Replicas : \A path \in Paths :
        LET leaf == LeafAt(path, c[r].root)
        IN  leaf # Undefined =>
                \A k \in DOMAIN leaf.nodeType.version :
                    /\ k \in DOMAIN c[r].version
                    /\ leaf.nodeType.version[k] <= c[r].version[k]

\* a replica that wrote holds, after a merge, its own leaf and a leaf the
\* other replica wrote: each leaf version has one of the two entries of the
\* container's version
C34_Witness ==
    \E r, s \in Replicas : \E p, q \in Paths :
        LET mine == LeafAt(p, c[r].root)
            other == LeafAt(q, c[r].root)
        IN  /\ r # s
            /\ mine # Undefined
            /\ other # Undefined
            /\ DOMAIN other.nodeType.version = {s}
            /\ other.nodeType.version[s] >= 1
            /\ DOMAIN mine.nodeType.version = {r}
            /\ mine.nodeType.version[r] >= 1
            /\ DOMAIN c[r].version = {r, s}
            /\ c[r].version[r] = mine.nodeType.version[r]
            /\ c[r].version[s] = other.nodeType.version[s]

\* C35: happensBefore is a strict partial order on the clocks of the
\* reachable containers and leaves: never true of a clock and itself, never
\* true in both directions for one pair, and transitive.
C35_HappensBeforeStrictOrder ==
    /\ \A a \in Clocks : ~happensBefore(a, a)
    /\ \A a, b \in Clocks : ~(happensBefore(a, b) /\ happensBefore(b, a))
    /\ \A a, b, d \in Clocks :
            (happensBefore(a, b) /\ happensBefore(b, d)) => happensBefore(a, d)

\* C36: in every container reachable from createContainer by set and
\* merge the version has a numeric entry for the container's own id, so the
\* version set computes has an integer counter for that id, one above it,
\* and never the result of undefined + 1.
C36_OwnEntryDefined ==
    \A r \in Replicas :
        LET x == c[r]
        IN  /\ x.id \in DOMAIN x.version
            /\ x.version[x.id] \in Nat
            /\ newVersion(x)[x.id] = x.version[x.id] + 1

\* a replica has written after it merged the container of the other, which
\* had written: its version holds both entries as counters
C36_Witness ==
    /\ last.op = "set"
    /\ last.error = ""
    /\ LET x == c[last.id]
       IN  /\ Cardinality(DOMAIN x.version) = 2
           /\ \A k \in DOMAIN x.version : x.version[k] \in Nat
           /\ \A k \in DOMAIN x.version : x.version[k] >= 1

\* the step is a set call of replica r, returned or thrown
SetCalled(r) ==
    /\ last'.op = "set"
    /\ last'.id = r
    /\ merges' = merges

\* q extends p by at least one key
StrictlyExtends(q, p) == Len(q) > Len(p) /\ SubSeq(q, 1, Len(p)) = p

\* C37: writing at a path that holds a branch replaces the whole subtree:
\* after set(p, v, c) where p resolves to a branch in c (the empty path
\* resolves to the root), get(p) is a single value leaf and every path that
\* strictly extends p is absent.  Once the root is a value leaf, every set
\* with a non-empty path throws and leaves the container as it was, and a
\* set with the empty path leaves a value leaf as the root.
C37_WriteAtBranchReplacesSubtree ==
    [][\A r \in Replicas :
            /\ (SetReturned(r) /\ IsBranch(last'.old)) =>
                    /\ IsValue(get(last'.path, c'[r].root))
                    /\ \A q \in Paths :
                            StrictlyExtends(q, last'.path)
                                => get(q, c'[r].root) = Undefined
            /\ (SetCalled(r) /\ IsValue(c[r].root)) =>
                    /\ IsValue(c'[r].root)
                    /\ Len(last'.path) > 0 =>
                            /\ last'.error = SetError
                            /\ c' = c
                            /\ writes' = writes]_vars

\* a replica has written at a path that held a branch with a leaf below:
\* the path holds a value leaf now and nothing is found below it
C37_Witness ==
    /\ last.op = "set"
    /\ last.error = ""
    /\ IsBranch(last.old)
    /\ \E key \in DOMAIN last.old.nodeType.children :
            IsValue(last.old.nodeType.children[key])
    /\ IsValue(get(last.path, c[last.id].root))
    /\ \A q \in Paths :
            StrictlyExtends(q, last.path) => get(q, c[last.id].root) = Undefined

(***************************************************************************)
(* The transactions of the database.                                       *)
(***************************************************************************)
\* C33: every operation (addFact, retractFact, addFacts, retractEntity) on
\* a database reachable from createDatabase returns nextTx exactly one
\* greater than its input's, keeps the input's facts as an unchanged prefix
\* and stamps every fact it adds with the input's nextTx; so every fact's
\* txId is below nextTx and the facts are stored in non-decreasing txId
\* order.
C33_TransactionsAppendOnly ==
    /\ dlast.op # "none" =>
            LET before == dlast.before
                kept == Len(before.facts)
            IN  /\ db.nextTx = before.nextTx + 1
                /\ Len(db.facts) >= kept
                /\ SubSeq(db.facts, 1, kept) = before.facts
                /\ \A i \in (kept + 1)..Len(db.facts) :
                        db.facts[i].txId = before.nextTx
    /\ \A i \in DOMAIN db.facts : db.facts[i].txId < db.nextTx
    /\ \A i, j \in DOMAIN db.facts :
            i < j => db.facts[i].txId <= db.facts[j].txId

\* after two transactions that stored facts, addFacts has added two facts
\* in one transaction
C33_Witness ==
    /\ dlast.op = "addFacts"
    /\ dlast.before.nextTx = 3
    /\ Len(dlast.before.facts) >= 2
    /\ dlast.before.facts[1].txId = 1
    /\ Len(db.facts) = Len(dlast.before.facts) + 2
    /\ db.facts[Len(db.facts)].txId = 3
    /\ db.facts[Len(db.facts) - 1].txId = 3
    /\ db.nextTx = 4
====
